---- MODULE Spec2Model ----
(***************************************************************************)
(* A model of the mustache template engine of src/mustache.go: the         *)
(* compiler (readString, readText, readTag, parse, parseSection) and the   *)
(* renderer (lookup, isEmpty, renderSection, renderElement, getPartials,   *)
(* Render, RenderInLayout).                                                *)
(*                                                                         *)
(* A Go string is a sequence of one-character strings.  Positions are the  *)
(* 0-based byte offsets of the source, so data[i] of the source is         *)
(* At(data, i) and data[a:b] is Slice(data, a, b).                         *)
(***************************************************************************)
EXTENDS Integers, Sequences, FiniteSets, TLC

\* source: the template source the host wrote, piece by piece
\* args:   the context arguments the host renders the template with
\* tmpl:   the Template, while it is compiled and after
\* prov:   the partial provider of the template
\* last:   the last call the host made on the template, and what it returned
\* prev:   the call before the last
VARIABLES source, args, tmpl, prov, last, prev

vars == <<source, args, tmpl, prov, last, prev>>

(***************************************************************************)
(* Bounds of the model.                                                    *)
(***************************************************************************)
\* the longest source of SpecNest, in pieces
MaxNestPieces == 5
\* the longest source of SpecLines, in pieces
MaxLinePieces == 4
\* the longest source of SpecDelims, in pieces
MaxDelimPieces == 4
\* the most context arguments a render call is given
MaxContexts == 2
\* the deepest nesting of partial expansions a render follows
MaxPartialDepth == 3

\* pieces of a source of degenerate tags
MaxDegeneratePieces == 3

(***************************************************************************)
(* Strings.                                                                *)
(***************************************************************************)
At(s, i) == s[i + 1]

Slice(s, a, b) == SubSeq(s, a + 1, b)

RECURSIVE Concat(_)
Concat(ss) == IF ss = <<>> THEN <<>> ELSE Head(ss) \o Concat(Tail(ss))

\* the characters strings.TrimSpace removes
WhiteSpace == {" ", "\t", "\n", "\r"}

RECURSIVE TrimLeft(_)
TrimLeft(s) ==
  IF s # <<>> /\ Head(s) \in WhiteSpace THEN TrimLeft(Tail(s)) ELSE s

RECURSIVE TrimRight(_)
TrimRight(s) ==
  IF s # <<>> /\ s[Len(s)] \in WhiteSpace
    THEN TrimRight(SubSeq(s, 1, Len(s) - 1))
    ELSE s

TrimSpace(s) == TrimRight(TrimLeft(s))

\* strings.Contains(s, c) for a one-character c
ContainsChar(s, c) == \E i \in 1..Len(s) : s[i] = c

\* the first index (0-based) of character c in s, or -1
RECURSIVE IndexFrom(_, _, _)
IndexFrom(s, c, i) ==
  IF i >= Len(s) THEN -1
  ELSE IF At(s, i) = c THEN i
  ELSE IndexFrom(s, c, i + 1)

IndexChar(s, c) == IndexFrom(s, c, 0)

\* strings.SplitN(s, sep, 2) for a one-character sep
SplitN2(s, sep) ==
  LET i == IndexChar(s, sep) IN
  IF i < 0 THEN <<s>> ELSE <<Slice(s, 0, i), Slice(s, i + 1, Len(s))>>

(***************************************************************************)
(* The elements of a compiled template.                                    *)
(***************************************************************************)
SkipWhitespaceTagTypes == <<"#", "^", "/", "<", ">", "=", "!">>

textElement(text) == [t |-> "text", text |-> text]

varElement(name, raw) == [t |-> "var", name |-> name, raw |-> raw]

sectionElement(name, inverted, startline, elems) ==
  [t |-> "section", name |-> name, inverted |-> inverted,
   startline |-> startline, elems |-> elems]

partialElement(name, indent) ==
  [t |-> "partial", name |-> name, indent |-> indent]

NoError == [line |-> 0, message |-> "", name |-> <<>>]

parseError(line, message, name) ==
  [line |-> line, message |-> message, name |-> name]

\* Template{data, "{{", "}}", 0, 1, []interface{}{}, partials, false}, with
\* the parser's call stack (the sections parseSection is working on), and
\* the outcome of the compile
Template(data) ==
  [data |-> data, otag |-> <<"{", "{">>, ctag |-> <<"}", "}">>,
   p |-> 0, curline |-> 1, elems |-> <<>>, errmiss |-> FALSE,
   stack |-> <<>>, status |-> "parsing", err |-> NoError]

(***************************************************************************)
(* The lexer.  Each function of the source is the operator of its name;    *)
(* where the function goes on with a value it has just computed, the rest  *)
(* of it is an operator that takes the value as a parameter.               *)
(***************************************************************************)
RECURSIVE readStringFrom(_, _, _, _, _, _)
readStringFrom(data, p, curline, s, i, newlines) ==
  IF i + Len(s) > Len(data)
    THEN [text |-> Slice(data, p, Len(data)), eof |-> TRUE, panic |-> FALSE,
          p |-> p, curline |-> curline]
  ELSE IF Len(s) = 0
    THEN [text |-> <<>>, eof |-> FALSE, panic |-> TRUE,
          p |-> p, curline |-> curline]
  ELSE IF Slice(data, i, i + Len(s)) = s
    THEN [text |-> Slice(data, p, i + Len(s)), eof |-> FALSE,
          panic |-> FALSE, p |-> i + Len(s),
          curline |-> curline + newlines
                        + (IF At(data, i) = "\n" THEN 1 ELSE 0)]
  ELSE readStringFrom(data, p, curline, s, i + 1,
                      newlines + (IF At(data, i) = "\n" THEN 1 ELSE 0))

readString(data, p, curline, s) == readStringFrom(data, p, curline, s, p, 0)

\* the backward scan of readText over spaces and tabs, down to pPrev
RECURSIVE padStart(_, _, _)
padStart(data, i, pPrev) ==
  IF i > pPrev /\ At(data, i - 1) \in {" ", "\t"}
    THEN padStart(data, i - 1, pPrev)
    ELSE i

\* readText from the backward scan on: i is where the padding starts
readTextPadding(tm, r, i) ==
  IF i = 0 \/ At(tm.data, i - 1) = "\n"
    THEN [text |-> Slice(tm.data, tm.p, i),
          padding |-> Slice(tm.data, i, r.p - Len(tm.otag)),
          mayStandalone |-> TRUE, eof |-> FALSE, panic |-> FALSE,
          p |-> r.p, curline |-> r.curline]
    ELSE [text |-> Slice(tm.data, tm.p, r.p - Len(tm.otag)),
          padding |-> <<>>, mayStandalone |-> FALSE, eof |-> FALSE,
          panic |-> FALSE, p |-> r.p, curline |-> r.curline]

\* readText after its readString, whose result is r
readTextOf(tm, r) ==
  IF r.panic \/ r.eof
    THEN [text |-> r.text, padding |-> <<>>, mayStandalone |-> FALSE,
          eof |-> r.eof, panic |-> r.panic, p |-> r.p, curline |-> r.curline]
    ELSE readTextPadding(tm, r, padStart(tm.data, r.p - Len(tm.otag), tm.p))

readText(tm) ==
  readTextOf(tm, readString(tm.data, tm.p, tm.curline, tm.otag))

\* the forward scan of readTag: the first position from p that holds neither
\* a space nor a tab, and p itself when there is none
RECURSIVE scanEow(_, _, _)
scanEow(data, p, i) ==
  IF i >= Len(data) THEN p
  ELSE IF ~(At(data, i) \in {" ", "\t"}) THEN i
  ELSE scanEow(data, p, i + 1)

tagReadingResult(tag, standalone, p, curline) ==
  [tag |-> tag, standalone |-> standalone, panic |-> FALSE, err |-> NoError,
   p |-> p, curline |-> curline]

\* readTag from 'standalone := true' on
readTagStandalone(data, mayStandalone, r, tag, eow) ==
  IF ~mayStandalone THEN tagReadingResult(tag, TRUE, r.p, r.curline)
  ELSE IF ~ContainsChar(SkipWhitespaceTagTypes, tag[1])
    THEN tagReadingResult(tag, FALSE, r.p, r.curline)
  ELSE IF eow = Len(data) THEN tagReadingResult(tag, TRUE, eow, r.curline)
  ELSE IF eow < Len(data) /\ At(data, eow) = "\n"
    THEN tagReadingResult(tag, TRUE, eow + 1, r.curline + 1)
  ELSE IF eow + 1 < Len(data) /\ At(data, eow) = "\r"
          /\ At(data, eow + 1) = "\n"
    THEN tagReadingResult(tag, TRUE, eow + 2, r.curline + 1)
  ELSE tagReadingResult(tag, FALSE, r.p, r.curline)

\* readTag from the trimmed tag on
readTagTrimmed(data, mayStandalone, r, tag) ==
  IF Len(tag) = 0
    THEN [tag |-> tag, standalone |-> FALSE, panic |-> FALSE,
          err |-> parseError(r.curline, "empty tag", <<>>),
          p |-> r.p, curline |-> r.curline]
    ELSE readTagStandalone(data, mayStandalone, r, tag,
                           scanEow(data, r.p, r.p))

\* readTag after its readString, whose result is r
readTagOf(data, ctag, curline, mayStandalone, r) ==
  IF r.panic
    THEN [tag |-> <<>>, standalone |-> FALSE, panic |-> TRUE, err |-> NoError,
          p |-> r.p, curline |-> r.curline]
  ELSE IF r.eof
    THEN [tag |-> <<>>, standalone |-> FALSE, panic |-> FALSE,
          err |-> parseError(curline, "unmatched open tag", <<>>),
          p |-> r.p, curline |-> r.curline]
  ELSE readTagTrimmed(data, mayStandalone, r,
         TrimSpace(Slice(r.text, 0, Len(r.text) - Len(ctag))))

readTag(data, ctag, p, curline, mayStandalone) ==
  readTagOf(data, ctag, curline, mayStandalone,
    readString(data, p, curline,
      IF p < Len(data) /\ At(data, p) = "{" THEN <<"}">> \o ctag ELSE ctag))

(***************************************************************************)
(* The parser.  parse and parseSection are one iteration of the loop of    *)
(* the function of that name; a call of parseSection is a section pushed   *)
(* on tm.stack, its return the pop.                                        *)
(***************************************************************************)
failed(tm, err) == [tm EXCEPT !.status = "error", !.err = err]

panicked(tm) == [tm EXCEPT !.status = "panic"]

parsePartial(name, indent) == partialElement(name, indent)

\* tmpl.p and tmpl.curline as readTag left them
advance(tm, tg) == [tm EXCEPT !.p = tg.p, !.curline = tg.curline]

\* the new delimiters of case '=' of parse and parseSection
setDelimiters(tm, newtags) ==
  IF Len(newtags) = 2
    THEN [tm EXCEPT !.otag = newtags[1], !.ctag = newtags[2]]
    ELSE tm

\* case '=' of parse and parseSection
metaTag(tm, tag) ==
  IF tag[Len(tag)] # "="
    THEN failed(tm, parseError(tm.curline, "Invalid meta tag", <<>>))
  ELSE IF 1 > Len(tag) - 1 THEN panicked(tm)
  ELSE setDelimiters(tm,
         SplitN2(TrimSpace(Slice(tag, 1, Len(tag) - 1)), " "))

\* the section parseSection is working on, and the append to its elems
currentSection(tm) == tm.stack[Len(tm.stack)]

appendSection(tm, el) ==
  [tm EXCEPT !.stack[Len(tm.stack)].elems = Append(@, el)]

\* a close tag that closes the section whatever its name
closesAnySection(name, section) == TRUE

\* 'name != section.name' of case '/' of parseSection
closesSection(name, section) == name = section.name

\* the return of parseSection to its caller, which appends the section
returnSection(tm, se, n) ==
  IF n = 1
    THEN [tm EXCEPT !.stack = <<>>, !.elems = Append(@, se)]
    ELSE [tm EXCEPT !.stack = [i \in 1..(n - 1) |->
            IF i = n - 1 THEN [tm.stack[i] EXCEPT !.elems = Append(@, se)]
                         ELSE tm.stack[i]]]

\* the switch of parseSection
sectionSwitch(tm, tag, padding) ==
  CASE tag[1] = "!" -> tm
    [] tag[1] \in {"#", "^"} ->
         [tm EXCEPT !.stack = Append(@,
            sectionElement(TrimSpace(Tail(tag)), tag[1] = "^",
                           tm.curline, <<>>))]
    [] tag[1] = "/" ->
         IF ~closesSection(TrimSpace(Tail(tag)), currentSection(tm))
           THEN failed(tm, parseError(tm.curline, "interleaved closing tag",
                                      TrimSpace(Tail(tag))))
           ELSE returnSection(tm, currentSection(tm), Len(tm.stack))
    [] tag[1] = ">" ->
         appendSection(tm, parsePartial(TrimSpace(Tail(tag)), padding))
    [] tag[1] = "=" -> metaTag(tm, tag)
    [] tag[1] = "{" ->
         IF tag[Len(tag)] = "}"
           THEN appendSection(tm,
                  varElement(TrimSpace(Slice(tag, 1, Len(tag) - 1)), TRUE))
           ELSE tm
    [] tag[1] = "&" ->
         appendSection(tm, varElement(TrimSpace(Tail(tag)), TRUE))
    [] OTHER -> appendSection(tm, varElement(tag, FALSE))

\* parseSection after its readTag, whose result is tg
sectionTag(tm, tr, tg) ==
  IF tg.panic THEN panicked(advance(tm, tg))
  ELSE IF tg.err # NoError THEN failed(advance(tm, tg), tg.err)
  ELSE sectionSwitch(
         IF ~tg.standalone
           THEN appendSection(advance(tm, tg), textElement(tr.padding))
           ELSE advance(tm, tg),
         tg.tag, tr.padding)

\* parseSection after its readText, whose result is tr
sectionText(tm, tr) ==
  IF tr.panic THEN panicked(tm)
  ELSE IF tr.eof
    THEN failed(tm, parseError(currentSection(tm).startline,
                               "has no closing tag", currentSection(tm).name))
  ELSE sectionTag(appendSection(tm, textElement(tr.text)), tr,
         readTag(tm.data, tm.ctag, tr.p, tr.curline, tr.mayStandalone))

parseSection(tm) == sectionText(tm, readText(tm))

\* the append of parse to tmpl.elems
appendTemplate(tm, el) == [tm EXCEPT !.elems = Append(@, el)]

\* the switch of parse
parseSwitch(tm, tag, padding) ==
  CASE tag[1] = "!" -> tm
    [] tag[1] \in {"#", "^"} ->
         [tm EXCEPT !.stack = Append(@,
            sectionElement(TrimSpace(Tail(tag)), tag[1] = "^",
                           tm.curline, <<>>))]
    [] tag[1] = "/" ->
         failed(tm, parseError(tm.curline, "unmatched close tag", <<>>))
    [] tag[1] = ">" ->
         appendTemplate(tm, parsePartial(TrimSpace(Tail(tag)), padding))
    [] tag[1] = "=" -> metaTag(tm, tag)
    [] tag[1] = "{" ->
         IF tag[Len(tag)] = "}"
           THEN appendTemplate(tm,
                  varElement(TrimSpace(Slice(tag, 1, Len(tag) - 1)), TRUE))
           ELSE tm
    [] tag[1] = "&" ->
         appendTemplate(tm, varElement(TrimSpace(Tail(tag)), TRUE))
    [] OTHER -> appendTemplate(tm, varElement(tag, FALSE))

\* parse after its readTag, whose result is tg
parseTag(tm, tr, tg) ==
  IF tg.panic THEN panicked(advance(tm, tg))
  ELSE IF tg.err # NoError THEN failed(advance(tm, tg), tg.err)
  ELSE parseSwitch(
         IF ~tg.standalone
           THEN appendTemplate(advance(tm, tg), textElement(tr.padding))
           ELSE advance(tm, tg),
         tg.tag, tr.padding)

\* parse after its readText, whose result is tr
parseText(tm, tr) ==
  IF tr.panic THEN panicked(tm)
  ELSE IF tr.eof
    THEN [tm EXCEPT !.elems = Append(@, textElement(tr.text)),
                    !.status = "ok"]
  ELSE parseTag(appendTemplate(tm, textElement(tr.text)), tr,
         readTag(tm.data, tm.ctag, tr.p, tr.curline, tr.mayStandalone))

parse(tm) == parseText(tm, readText(tm))

\* the compile run to its end
RECURSIVE parseAll(_)
parseAll(tm) ==
  IF tm.status # "parsing" THEN tm
  ELSE IF tm.stack = <<>> THEN parseAll(parse(tm))
  ELSE parseAll(parseSection(tm))

ParseStringPartials(data) == parseAll(Template(data))

ParseString(data) == ParseStringPartials(data)

(***************************************************************************)
(* The values a context holds (reflect.Value), by kind.  Invalid is the    *)
(* zero reflect.Value; Nil is a nil interface value held in a map, a       *)
(* field or a list.  The methods of a struct are the zero-argument         *)
(* methods of its type, each with the value a call returns.                *)
(***************************************************************************)
Invalid == [k |-> "invalid"]

Nil == [k |-> "nil"]

Str(s) == [k |-> "string", str |-> s]

Bool(b) == [k |-> "bool", bool |-> b]

SliceOf(l) == [k |-> "slice", isnil |-> FALSE, list |-> l]

ArrayOf(l) == [k |-> "array", list |-> l]

MapOf(m) == [k |-> "map", isnil |-> FALSE, map |-> m]

NoNames == [n \in {} |-> Invalid]

NilMap == [k |-> "map", isnil |-> TRUE, map |-> NoNames]

StructOf(f, m) == [k |-> "struct", fields |-> f, methods |-> m]

PtrTo(v) == [k |-> "ptr", elem |-> v]

IsValid(v) == v.k # "invalid"

(***************************************************************************)
(* lookup.                                                                 *)
(***************************************************************************)
NotFound == [found |-> FALSE, v |-> Invalid]

Found(v) == [found |-> TRUE, v |-> v]

\* the loop 'for v.IsValid()' of lookup over one context of the chain
RECURSIVE lookupContext(_, _)
lookupContext(v, name) ==
  IF ~IsValid(v) THEN NotFound
  ELSE IF v.k = "struct" /\ name \in DOMAIN v.methods
    THEN Found(v.methods[name])
  ELSE IF name = <<".">> THEN Found(v)
  ELSE
    CASE v.k = "ptr" -> lookupContext(v.elem, name)
      [] v.k = "nil" -> NotFound
      [] v.k = "struct" ->
           IF name \in DOMAIN v.fields THEN Found(v.fields[name]) ELSE NotFound
      [] v.k = "map" ->
           IF name \in DOMAIN v.map THEN Found(v.map[name]) ELSE NotFound
      [] OTHER -> NotFound

\* the loop 'for _, ctx := range contextChain' of lookup, from context i on;
\* r is what context i gave
RECURSIVE lookupFrom(_, _, _)
lookupNext(contextChain, name, i, r) ==
  IF r.found THEN r ELSE lookupFrom(contextChain, name, i + 1)

lookupFrom(contextChain, name, i) ==
  IF i > Len(contextChain) THEN NotFound
  ELSE lookupNext(contextChain, name, i,
                  lookupContext(contextChain[i], name))

\* a scan of the chain from its last context to its first
RECURSIVE lookupBack(_, _, _)
lookupBack(contextChain, name, i) ==
  IF i < 1 THEN NotFound
  ELSE IF lookupContext(contextChain[i], name).found
    THEN lookupContext(contextChain[i], name)
  ELSE lookupBack(contextChain, name, i - 1)

lookupOuterFirst(contextChain, name) ==
  lookupBack(contextChain, name, Len(contextChain))

\* the scan of the chain, from the first context to the last
lookupChain(contextChain, name) == lookupFrom(contextChain, name, 1)

\* the end of lookup: the value found, or the missing variable
lookupResult(r, errMissing) ==
  IF r.found THEN [v |-> r.v, err |-> FALSE]
  ELSE [v |-> Invalid, err |-> errMissing]

RECURSIVE lookup(_, _, _)
\* the dot notation of lookup: r is what the first part resolved to
lookupRest(r, rest, errMissing) ==
  IF r.err THEN r ELSE lookup(<<r.v>>, rest, errMissing)

lookup(contextChain, name, errMissing) ==
  IF name # <<".">> /\ ContainsChar(name, ".")
    THEN lookupRest(lookup(contextChain, SplitN2(name, ".")[1], errMissing),
                    SplitN2(name, ".")[2], errMissing)
    ELSE lookupResult(lookupChain(contextChain, name), errMissing)

(***************************************************************************)
(* isEmpty and indirect.                                                   *)
(***************************************************************************)
RECURSIVE indirect(_)
indirect(v) ==
  IF v.k = "ptr" THEN indirect(v.elem)
  ELSE IF v.k = "nil" THEN Invalid
  ELSE v

\* reflect.Value.IsZero
RECURSIVE IsZero(_)
IsZero(v) ==
  CASE v.k = "string" -> v.str = <<>>
    [] v.k = "bool" -> ~v.bool
    [] v.k \in {"slice", "map"} -> v.isnil
    [] v.k = "array" -> \A i \in 1..Len(v.list) : IsZero(v.list[i])
    [] v.k = "struct" -> \A n \in DOMAIN v.fields : IsZero(v.fields[n])
    [] v.k = "ptr" -> ~IsValid(v.elem)
    [] v.k = "nil" -> TRUE
    [] OTHER -> TRUE

\* isEmpty from 'valueInd := indirect(v)' on
isEmptyIndirect(valueInd) ==
  IF ~IsValid(valueInd) THEN TRUE
  ELSE
    CASE valueInd.k \in {"array", "slice"} -> Len(valueInd.list) = 0
      [] valueInd.k = "string" -> Len(TrimSpace(valueInd.str)) = 0
      [] OTHER -> IsZero(valueInd)

isEmpty(v) ==
  IF ~IsValid(v) \/ v.k = "nil" THEN TRUE ELSE isEmptyIndirect(indirect(v))

(***************************************************************************)
(* What a Variable tag writes: fmt.Sprint of the value, HTML-escaped when  *)
(* the tag is not raw.                                                     *)
(***************************************************************************)
\* the characters of the model in byte order (the order fmt prints map keys)
ByteOrder ==
  <<"\t", "\n", "\r", " ", "!", "\"", "#", "%", "&", "'", ".", "/", "<", "=",
    ">", "^", "a", "b", "c", "d", "e", "f", "i", "l", "m", "n", "o", "p", "q",
    "r", "s", "t", "u", "v", "w", "x", "y", "z", "{", "|", "}">>

ByteOf(c) ==
  IF ContainsChar(ByteOrder, c)
    THEN CHOOSE i \in 1..Len(ByteOrder) : ByteOrder[i] = c
    ELSE 0

RECURSIVE StringLess(_, _)
StringLess(a, b) ==
  IF b = <<>> THEN FALSE
  ELSE IF a = <<>> THEN TRUE
  ELSE IF Head(a) = Head(b) THEN StringLess(Tail(a), Tail(b))
  ELSE ByteOf(Head(a)) < ByteOf(Head(b))

RECURSIVE SortedNames(_)
SortedNames(S) ==
  IF S = {} THEN <<>>
  ELSE
    LET m == CHOOSE x \in S : \A y \in S \ {x} : StringLess(x, y) IN
    <<m>> \o SortedNames(S \ {m})

RECURSIVE JoinSpace(_)
JoinSpace(ss) ==
  IF ss = <<>> THEN <<>>
  ELSE IF Len(ss) = 1 THEN ss[1]
  ELSE ss[1] \o <<" ">> \o JoinSpace(Tail(ss))

\* fmt.Sprint(val.Interface())
RECURSIVE Sprint(_)
Sprint(v) ==
  CASE v.k = "string" -> v.str
    [] v.k = "bool" ->
         IF v.bool THEN <<"t", "r", "u", "e">> ELSE <<"f", "a", "l", "s", "e">>
    [] v.k \in {"nil", "invalid"} -> <<"<", "n", "i", "l", ">">>
    [] v.k \in {"slice", "array"} ->
         <<"[">> \o JoinSpace([i \in 1..Len(v.list) |-> Sprint(v.list[i])])
                 \o <<"]">>
    [] v.k = "map" ->
         LET ks == SortedNames(DOMAIN v.map) IN
         <<"m", "a", "p", "[">>
           \o JoinSpace([i \in 1..Len(ks) |->
                           ks[i] \o <<":">> \o Sprint(v.map[ks[i]])])
           \o <<"]">>
    [] v.k = "struct" ->
         LET ks == SortedNames(DOMAIN v.fields) IN
         <<"{">> \o JoinSpace([i \in 1..Len(ks) |-> Sprint(v.fields[ks[i]])])
                 \o <<"}">>
    [] v.k = "ptr" ->
         IF ~IsValid(v.elem) THEN <<"<", "n", "i", "l", ">">>
         ELSE <<"&">> \o Sprint(v.elem)

\* template.HTMLEscape
RECURSIVE HTMLEscape(_)
HTMLEscape(s) ==
  IF s = <<>> THEN <<>>
  ELSE
    LET c == Head(s)
        e == CASE c = "<" -> <<"&", "l", "t", ";">>
               [] c = ">" -> <<"&", "g", "t", ";">>
               [] c = "&" -> <<"&", "a", "m", "p", ";">>
               [] c = "\"" -> <<"&", "#", "3", "4", ";">>
               [] c = "'" -> <<"&", "#", "3", "9", ";">>
               [] OTHER -> <<c>>
    IN e \o HTMLEscape(Tail(s))

(***************************************************************************)
(* The partial provider: a StaticProvider over the map prov.partials, or   *)
(* the EmptyProvider when prov.empty.                                      *)
(***************************************************************************)
\* ParseStringPartials(data, nil): the EmptyProvider
NoProvider == [empty |-> TRUE, partials |-> NoNames]

\* a StaticProvider over the map partials
StaticProvider(partials) == [empty |-> FALSE, partials |-> partials]

\* a Get that keeps to what the provider returned to the call before
GetCached(pv, name) ==
  IF last.op = "none" \/ last.prov.empty # pv.empty
    THEN IF pv.empty THEN [data |-> <<>>, err |-> FALSE]
         ELSE IF name \in DOMAIN pv.partials
           THEN [data |-> pv.partials[name], err |-> FALSE]
         ELSE [data |-> <<>>, err |-> TRUE]
  ELSE IF last.prov.empty THEN [data |-> <<>>, err |-> FALSE]
  ELSE IF name \in DOMAIN last.prov.partials
    THEN [data |-> last.prov.partials[name], err |-> FALSE]
  ELSE [data |-> <<>>, err |-> TRUE]

\* PartialProvider.Get
Get(pv, name) ==
  IF pv.empty THEN [data |-> <<>>, err |-> FALSE]
  ELSE IF name \in DOMAIN pv.partials
    THEN [data |-> pv.partials[name], err |-> FALSE]
  ELSE [data |-> <<>>, err |-> TRUE]

\* nonEmptyLine.ReplaceAllString(data, indent+"$1"): indent before every
\* line that holds a character
RECURSIVE indentFrom(_, _, _)
indentFrom(data, indent, i) ==
  IF i >= Len(data) THEN <<>>
  ELSE
    LET atStart == (i = 0 \/ At(data, i - 1) = "\n")
        pre == IF atStart /\ At(data, i) # "\n" THEN indent ELSE <<>>
    IN pre \o <<At(data, i)>> \o indentFrom(data, indent, i + 1)

indentLines(data, indent) == indentFrom(data, indent, 0)

\* getPartials after partials.Get, whose result is g
getPartialsOf(g, indent) ==
  IF g.err THEN [err |-> TRUE, tm |-> Template(<<>>)]
  ELSE [err |-> FALSE, tm |-> ParseStringPartials(indentLines(g.data, indent))]

\* the compiled partial, or the provider's error
getPartials(pv, name, indent) == getPartialsOf(Get(pv, name), indent)

(***************************************************************************)
(* The renderer.  A render returns what it wrote to the buffer and its     *)
(* error: "" for nil, "missing" for a missing variable, "partial" for the  *)
(* provider's error, "parse" for a partial that does not compile, "panic"  *)
(* for a run-time panic and "overflow" for a partial expansion nested      *)
(* deeper than MaxPartialDepth.                                            *)
(***************************************************************************)
Wrote(out) == [out |-> out, err |-> ""]

Failed(out, err) == [out |-> out, err |-> err]

\* what the buffer holds after out and then the render r
After(out, r) == Failed(out \o r.out, r.err)

\* ctx behind the chain the section was given
pushContextLast(ctx, contextChain) == contextChain \o <<ctx>>

\* chain2 of renderSection: ctx in front of the chain the section was given
pushContext(ctx, contextChain) == <<ctx>> \o contextChain

\* the contexts renderSection renders the body with, one run of the body
\* each; context is the context the section keeps for a scalar
sectionContextsOf(section, value, context, empty) ==
  IF (empty /\ ~section.inverted) \/ (~empty /\ section.inverted) THEN <<>>
  ELSE IF ~section.inverted
    THEN
      CASE indirect(value).k \in {"slice", "array"} -> indirect(value).list
        [] indirect(value).k \in {"map", "struct"} -> <<value>>
        [] OTHER -> <<context>>
    ELSE <<context>>

\* 'var context = contextChain[len(contextChain)-1]' of renderSection
sectionContext(contextChain) == contextChain[Len(contextChain)]

sectionContexts(section, value, contextChain) ==
  sectionContextsOf(section, value, sectionContext(contextChain),
                    isEmpty(value))

RECURSIVE renderElements(_, _, _, _, _)
RECURSIVE renderElement(_, _, _, _, _)
RECURSIVE renderBodies(_, _, _, _, _, _)

\* the loop 'for _, elem := range elems' of renderTemplate and renderSection;
\* r is the render of the element before rest
renderNext(r, rest, contextChain, errmiss, pv, depth) ==
  IF r.err # "" THEN r
  ELSE After(r.out, renderElements(rest, contextChain, errmiss, pv, depth))

renderElements(elems, contextChain, errmiss, pv, depth) ==
  IF elems = <<>> THEN Wrote(<<>>)
  ELSE renderNext(
         renderElement(Head(elems), contextChain, errmiss, pv, depth),
         Tail(elems), contextChain, errmiss, pv, depth)

\* the loop 'for _, ctx := range contexts' of renderSection; r is the render
\* of the body with the context before rest
renderNextBody(r, rest, section, contextChain, errmiss, pv, depth) ==
  IF r.err # "" THEN r
  ELSE After(r.out,
             renderBodies(rest, section, contextChain, errmiss, pv, depth))

renderBodies(contexts, section, contextChain, errmiss, pv, depth) ==
  IF contexts = <<>> THEN Wrote(<<>>)
  ELSE renderNextBody(
         renderElements(section.elems,
                        pushContext(Head(contexts), contextChain),
                        errmiss, pv, depth),
         Tail(contexts), section, contextChain, errmiss, pv, depth)

\* renderSection after its lookup, whose result is r
renderSectionOf(section, r, contextChain, errmiss, pv, depth) ==
  IF r.err THEN Failed(<<>>, "missing")
  ELSE IF Len(contextChain) = 0 THEN Failed(<<>>, "panic")
  ELSE renderBodies(sectionContexts(section, r.v, contextChain), section,
                    contextChain, errmiss, pv, depth)

renderSection(section, contextChain, errmiss, pv, depth) ==
  renderSectionOf(section, lookup(contextChain, section.name, FALSE),
                  contextChain, errmiss, pv, depth)

\* case *varElement of renderElement after its lookup, whose result is r
renderVar(elem, r) ==
  IF r.err THEN Failed(<<>>, "missing")
  ELSE IF IsValid(r.v)
    THEN IF elem.raw THEN Wrote(Sprint(r.v))
         ELSE Wrote(HTMLEscape(Sprint(r.v)))
  ELSE Wrote(<<>>)

\* the errmiss of the Template that renders a partial: the partial's own
partialErrmiss(partial, errmiss) == partial.errmiss

\* case *partialElement of renderElement after getPartials, whose result is g
renderPartial(g, contextChain, errmiss, pv, depth) ==
  IF g.err THEN Failed(<<>>, "partial")
  ELSE IF g.tm.status = "panic" THEN Failed(<<>>, "panic")
  ELSE IF g.tm.status = "error" THEN Failed(<<>>, "parse")
  ELSE IF depth >= MaxPartialDepth THEN Failed(<<>>, "overflow")
  ELSE renderElements(g.tm.elems, contextChain,
                      partialErrmiss(g.tm, errmiss), pv, depth + 1)

renderElement(elem, contextChain, errmiss, pv, depth) ==
  CASE elem.t = "text" -> Wrote(elem.text)
    [] elem.t = "var" ->
         renderVar(elem, lookup(contextChain, elem.name, errmiss))
    [] elem.t = "section" ->
         renderSection(elem, contextChain, errmiss, pv, depth)
    [] elem.t = "partial" ->
         renderPartial(getPartials(pv, elem.name, elem.indent), contextChain,
                       errmiss, pv, depth)

renderTemplate(tm, contextChain, pv) ==
  renderElements(tm.elems, contextChain, tm.errmiss, pv, 0)

\* reflect.ValueOf(c)
ValueOf(c) == IF c.k = "nil" THEN Invalid ELSE c

FRender(tm, context, pv) ==
  renderTemplate(tm, [i \in 1..Len(context) |-> ValueOf(context[i])], pv)

\* 'return buf.String(), err' of Render; a panic returns nothing
renderReturn(r) ==
  IF r.err \in {"panic", "overflow"} THEN Failed(<<>>, r.err) ELSE r

Render(tm, context, pv) == renderReturn(FRender(tm, context, pv))

content == <<"c", "o", "n", "t", "e", "n", "t">>

\* FRenderInLayout after its Render, whose result is c; the partials of the
\* layout are those of its own provider, and a layout is compiled by
\* ParseString
layoutRender(c, layout, context, pv) ==
  IF c.err # "" THEN Failed(<<>>, c.err)
  ELSE FRender(layout, <<MapOf(content :> Str(c.out))>> \o context,
               NoProvider)

FRenderInLayout(tm, layout, context, pv) ==
  layoutRender(Render(tm, context, pv), layout, context, pv)

\* 'if err != nil { return "", err }' of RenderInLayout
layoutReturn(r) == IF r.err # "" THEN Failed(<<>>, r.err) ELSE r

RenderInLayout(tm, layout, context, pv) ==
  layoutReturn(FRenderInLayout(tm, layout, context, pv))

(***************************************************************************)
(* The pieces a template source is written from.  A piece is its text and  *)
(* what the host means by it: kind "text", or the kind of tag it is, with  *)
(* the tag's name and the delimiters the tag is written in.  The name of a *)
(* delimiter-change tag is the pair of delimiters it asks for.             *)
(***************************************************************************)
DelimitedPiece(kind, name, text, otag, ctag) ==
  [kind |-> kind, name |-> name, text |-> text, otag |-> otag, ctag |-> ctag]

Piece(kind, name, text) ==
  DelimitedPiece(kind, name, text, <<"{", "{">>, <<"}", "}">>)

TextPiece(text) == Piece("text", <<>>, text)

\* a tag in the default delimiters: {{ sigil name }}
TagPiece(kind, sigil, name) ==
  Piece(kind, name, <<"{", "{">> \o sigil \o name \o <<"}", "}">>)

VarTag(name) == TagPiece("var", <<>>, name)

OpenTag(name) == TagPiece("open", <<"#">>, name)

InvertedTag(name) == TagPiece("inverted", <<"^">>, name)

CloseTag(name) == TagPiece("close", <<"/">>, name)

CommentTag(name) == TagPiece("comment", <<"!">>, name)

PartialTag(name) == TagPiece("partial", <<">">>, name)

SourceText(pieces) == Concat([i \in 1..Len(pieces) |-> pieces[i].text])

\* every source of at most n pieces of the pool
SourcesOf(pool, n) == UNION {[1..k -> pool] : k \in 0..n}

(***************************************************************************)
(* The state machine: the host compiles a source, step by step of the      *)
(* parser's loops, and then calls the compiled template.                   *)
(***************************************************************************)
NoCall ==
  [op |-> "none", context |-> <<>>, layout |-> <<>>, errmiss |-> FALSE,
   prov |-> NoProvider, out |-> <<>>, err |-> ""]

InitWith(sources, chains, provs) ==
  /\ source \in sources
  /\ args \in chains
  /\ tmpl = Template(SourceText(source))
  /\ prov \in provs
  /\ last = NoCall
  /\ prev = NoCall

\* an iteration of the loop of parse
ParseLoop ==
  /\ tmpl.status = "parsing"
  /\ tmpl.stack = <<>>
  /\ tmpl' = parse(tmpl)
  /\ UNCHANGED <<source, args, prov, last, prev>>

\* an iteration of the loop of parseSection
ParseSectionLoop ==
  /\ tmpl.status = "parsing"
  /\ tmpl.stack # <<>>
  /\ tmpl' = parseSection(tmpl)
  /\ UNCHANGED <<source, args, prov, last, prev>>

NextCompile == ParseLoop \/ ParseSectionLoop

\* tmpl.SetErrorOnMissing()
SetErrorOnMissing(tm) == [tm EXCEPT !.errmiss = TRUE]

Returned(op, context, layout, r) ==
  [op |-> op, context |-> context, layout |-> layout,
   errmiss |-> tmpl.errmiss, prov |-> prov, out |-> r.out, err |-> r.err]

CallSetErrorOnMissing ==
  /\ tmpl.status = "ok"
  /\ ~tmpl.errmiss
  /\ tmpl' = SetErrorOnMissing(tmpl)
  /\ UNCHANGED <<source, args, prov, last, prev>>

\* tmpl.Render(args...)
CallRender ==
  /\ tmpl.status = "ok"
  /\ last' = Returned("Render", args, <<>>, Render(tmpl, args, prov))
  /\ prev' = last
  /\ UNCHANGED <<source, args, tmpl, prov>>

\* tmpl.RenderInLayout(layout, args...), the layout one of the compiled
\* layouts
CallRenderInLayout(layouts) ==
  /\ tmpl.status = "ok"
  /\ \E layout \in layouts :
       /\ layout.status = "ok"
       /\ last' = Returned("RenderInLayout", args, layout.data,
                            RenderInLayout(tmpl, layout, args, prov))
  /\ prev' = last
  /\ UNCHANGED <<source, args, tmpl, prov>>

\* the host changes what the StaticProvider holds for a name
HostSetPartial(names, texts) ==
  /\ ~prov.empty
  /\ \E name \in names, text \in texts :
       prov' = [prov EXCEPT !.partials =
                  [n \in DOMAIN prov.partials \cup {name} |->
                     IF n = name THEN text ELSE prov.partials[n]]]
  /\ UNCHANGED <<source, args, tmpl, last, prev>>

\* every chain of at most n contexts of the pool
ChainsOf(pool, n) == UNION {[1..k -> pool] : k \in 0..n}

(***************************************************************************)
(* SpecNest: the compile of sources of nested sections.                    *)
(***************************************************************************)
NestPieces ==
  {OpenTag(<<"a">>), InvertedTag(<<"b">>), CloseTag(<<"a">>),
   CloseTag(<<"b">>), VarTag(<<"x">>), TextPiece(<<"t">>)}

InitNest ==
  InitWith(SourcesOf(NestPieces, MaxNestPieces), {<<>>}, {NoProvider})

SpecNest == InitNest /\ [][NextCompile]_vars

\* the source text of a compiled tree, written back in the default delimiters
RECURSIVE Unparse(_)
Unparse(elems) ==
  IF elems = <<>> THEN <<>>
  ELSE
    LET e == Head(elems) IN
    (CASE e.t = "text" -> e.text
       [] e.t = "var" ->
            <<"{", "{">> \o (IF e.raw THEN <<"&">> ELSE <<>>) \o e.name
                         \o <<"}", "}">>
       [] e.t = "partial" -> <<"{", "{", ">">> \o e.name \o <<"}", "}">>
       [] e.t = "section" ->
            <<"{", "{">> \o (IF e.inverted THEN <<"^">> ELSE <<"#">>)
                         \o e.name \o <<"}", "}">> \o Unparse(e.elems)
                         \o <<"{", "{", "/">> \o e.name \o <<"}", "}">>)
    \o Unparse(Tail(elems))

\* what the nesting rule says of a source, read piece by piece with the
\* names of the open sections: the first fault, or "" for a proper nesting
RECURSIVE NestFault(_, _)
NestFault(pieces, open) ==
  IF pieces = <<>>
    THEN IF open = <<>> THEN "" ELSE "has no closing tag"
  ELSE
    LET pc == Head(pieces) IN
    CASE pc.kind \in {"open", "inverted"} ->
           NestFault(Tail(pieces), <<pc.name>> \o open)
      [] pc.kind = "close" ->
           IF open = <<>> THEN "unmatched close tag"
           ELSE IF Head(open) # pc.name THEN "interleaved closing tag"
           ELSE NestFault(Tail(pieces), Tail(open))
      [] OTHER -> NestFault(Tail(pieces), open)

Compiled == tmpl.status # "parsing"

\* C4: a compile succeeds exactly for properly nested section tags; a close
\* tag with no open section, a close tag of another name than the innermost
\* open section's, and the end of input in an open section each fail with
\* their error; and the children of every section of a compiled tree are the
\* nodes between its open tag and its close tag, so that the tree written
\* back is the source.
C4_ProperNesting ==
  Compiled =>
    /\ tmpl.status \in {"ok", "error"}
    /\ tmpl.err.message = NestFault(source, <<>>)
    /\ (tmpl.status = "ok") = (NestFault(source, <<>>) = "")
    /\ tmpl.status = "ok" => Unparse(tmpl.elems) = tmpl.data

\* C4's case: a compiled tree with a section inside a section, with a child
C4_Witness ==
  /\ tmpl.status = "ok"
  /\ \E i \in 1..Len(tmpl.elems) :
       /\ tmpl.elems[i].t = "section"
       /\ \E j \in 1..Len(tmpl.elems[i].elems) :
            /\ tmpl.elems[i].elems[j].t = "section"
            /\ \E k \in 1..Len(tmpl.elems[i].elems[j].elems) :
                 tmpl.elems[i].elems[j].elems[k].t = "var"

(***************************************************************************)
(* SpecLines: the compile of sources of tags, spaces and line breaks.      *)
(***************************************************************************)
SpacePiece(text) == Piece("space", <<>>, text)

NewlinePiece(text) == Piece("newline", <<>>, text)

LinePieces ==
  {SpacePiece(<<" ">>), NewlinePiece(<<"\n">>), NewlinePiece(<<"\r", "\n">>),
   TextPiece(<<"x">>), CommentTag(<<"c">>), VarTag(<<"v">>),
   OpenTag(<<"a">>), CloseTag(<<"a">>)}

InitLines ==
  InitWith(SourcesOf(LinePieces, MaxLinePieces), {<<>>}, {NoProvider})

SpecLines == InitLines /\ [][NextCompile]_vars

\* the text elements of a tree, in order
RECURSIVE TreeText(_)
TreeText(elems) ==
  IF elems = <<>> THEN <<>>
  ELSE
    LET e == Head(elems) IN
    (CASE e.t = "text" -> e.text
       [] e.t = "section" -> TreeText(e.elems)
       [] OTHER -> <<>>)
    \o TreeText(Tail(elems))

\* the tags whose first character is one of #^/<>=!
StructuralKinds == {"open", "inverted", "close", "comment", "partial", "delim"}

AllSpaces(pieces, a, b) == \A j \in a..b : pieces[j].kind = "space"

\* piece t is a tag alone on its line: spaces only before it back to a line
\* break or the start, spaces only after it up to a line break or the end
StandaloneAt(pieces, t) ==
  /\ pieces[t].kind \in StructuralKinds
  /\ \E j \in 0..(t - 1) :
       /\ AllSpaces(pieces, j + 1, t - 1)
       /\ j = 0 \/ pieces[j].kind = "newline"
  /\ \E k \in (t + 1)..(Len(pieces) + 1) :
       /\ AllSpaces(pieces, t + 1, k - 1)
       /\ k = Len(pieces) + 1 \/ pieces[k].kind = "newline"

\* piece i is the white space before a standalone tag, or the white space
\* and line break after it
Stripped(pieces, i) ==
  \E t \in 1..Len(pieces) :
    /\ StandaloneAt(pieces, t)
    /\ \/ i < t /\ AllSpaces(pieces, i, t - 1)
       \/ /\ i > t
          /\ AllSpaces(pieces, t + 1, i - 1)
          /\ pieces[i].kind \in {"space", "newline"}

\* the text the standalone rule leaves of a source
ExpectedText(pieces) ==
  Concat([i \in 1..Len(pieces) |->
    IF pieces[i].kind \in {"text", "space", "newline"}
       /\ ~Stripped(pieces, i)
      THEN pieces[i].text
      ELSE <<>>])

\* C6: a tag of #^/<>=! alone on its line is standalone, and the tree holds
\* neither the white space before it nor the white space and line break
\* after it; all other text of the source is kept.
C6_StandaloneStripped ==
  tmpl.status = "ok" => TreeText(tmpl.elems) = ExpectedText(source)

\* the line of the open tag of the innermost section a source leaves open
\* (0 when it leaves none), read piece by piece with the lines of the open
\* tags of the open sections
RECURSIVE UnclosedLine(_, _, _)
UnclosedLine(pieces, line, open) ==
  IF pieces = <<>>
    THEN IF open = <<>> THEN 0 ELSE Head(open)
  ELSE
    LET pc == Head(pieces) IN
    CASE pc.kind \in {"open", "inverted"} ->
           UnclosedLine(Tail(pieces), line, <<line>> \o open)
      [] pc.kind = "close" ->
           IF open = <<>> THEN 0
           ELSE UnclosedLine(Tail(pieces), line, Tail(open))
      [] pc.kind = "newline" -> UnclosedLine(Tail(pieces), line + 1, open)
      [] OTHER -> UnclosedLine(Tail(pieces), line, open)

\* C10: the error of a section left open at the end of input carries the line
\* of the section's open tag.
C10_UnclosedSectionLine ==
  (tmpl.status = "error" /\ tmpl.err.message = "has no closing tag")
    => tmpl.err.line = UnclosedLine(source, 1, <<>>)

(***************************************************************************)
(* SpecDelims: the compile of sources that change the delimiters.          *)
(***************************************************************************)
Braces == <<<<"{", "{">>, <<"}", "}">>>>

Bars == <<<<"|">>, <<"|">>>>

\* {{=| |=}} with the white space sep between the two tokens
ToBars(sep) ==
  DelimitedPiece("delim", Bars,
                 <<"{", "{", "=", "|">> \o sep \o <<"|", "=", "}", "}">>,
                 Braces[1], Braces[2])

\* |={{ }}=|
ToBraces ==
  DelimitedPiece("delim", Braces,
                 <<"|", "=", "{", "{", " ", "}", "}", "=", "|">>,
                 Bars[1], Bars[2])

\* a tag written in bars: | sigil name |
BarTag(kind, sigil, name) ==
  DelimitedPiece(kind, name, <<"|">> \o sigil \o name \o <<"|">>,
                 Bars[1], Bars[2])

DelimPieces ==
  {ToBars(<<" ">>), ToBars(<<" ", " ">>), ToBars(<<"\t">>), ToBraces,
   BarTag("var", <<>>, <<"x">>), VarTag(<<"x">>), OpenTag(<<"a">>),
   BarTag("close", <<"/">>, <<"a">>), TextPiece(<<"t">>)}

InitDelims ==
  InitWith(SourcesOf(DelimPieces, MaxDelimPieces), {<<>>}, {NoProvider})

SpecDelims == InitDelims /\ [][NextCompile]_vars

HasSub(s, sub) ==
  \E i \in 0..(Len(s) - Len(sub)) : Slice(s, i, i + Len(sub)) = sub

Item(t, s) == [t |-> t, s |-> s]

\* adjacent text items as one, and no empty text item
RECURSIVE MergeText(_)
MergeText(items) ==
  IF items = <<>> THEN <<>>
  ELSE IF Head(items).t = "text" /\ Head(items).s = <<>>
    THEN MergeText(Tail(items))
  ELSE IF Len(items) >= 2 /\ items[1].t = "text" /\ items[2].t = "text"
    THEN MergeText(<<Item("text", items[1].s \o items[2].s)>>
                   \o Tail(Tail(items)))
  ELSE <<Head(items)>> \o MergeText(Tail(items))

\* a tree as the items of its source: text, var, open, close
RECURSIVE TreeItems(_)
TreeItems(elems) ==
  IF elems = <<>> THEN <<>>
  ELSE
    LET e == Head(elems) IN
    (CASE e.t = "text" -> <<Item("text", e.text)>>
       [] e.t = "var" -> <<Item("var", e.name)>>
       [] e.t = "partial" -> <<Item("partial", e.name)>>
       [] e.t = "section" ->
            <<Item("open", e.name)>> \o TreeItems(e.elems)
              \o <<Item("close", e.name)>>)
    \o TreeItems(Tail(elems))

\* what the delimiter rule says of a source, read piece by piece with the
\* delimiters in force (cur) and the names of the open sections: the items,
\* the delimiters at the end, the first nesting fault, and covered = FALSE
\* for a source that writes an active delimiter inside another piece
RECURSIVE DelimRead(_, _, _, _)
DelimRead(pieces, cur, open, items) ==
  IF pieces = <<>>
    THEN [covered |-> TRUE, items |-> MergeText(items), cur |-> cur,
          fault |-> IF open = <<>> THEN "" ELSE "has no closing tag"]
  ELSE
    LET pc == Head(pieces)
        rest == Tail(pieces)
        stop(fault) == [covered |-> TRUE, items |-> MergeText(items),
                        cur |-> cur, fault |-> fault]
    IN
    IF pc.kind = "text" \/ <<pc.otag, pc.ctag>> # cur
      THEN IF HasSub(pc.text, cur[1])
             THEN [covered |-> FALSE, items |-> <<>>, cur |-> cur,
                   fault |-> ""]
             ELSE DelimRead(rest, cur, open,
                            Append(items, Item("text", pc.text)))
    ELSE
      CASE pc.kind = "delim" -> DelimRead(rest, pc.name, open, items)
        [] pc.kind = "var" ->
             DelimRead(rest, cur, open, Append(items, Item("var", pc.name)))
        [] pc.kind = "open" ->
             DelimRead(rest, cur, <<pc.name>> \o open,
                       Append(items, Item("open", pc.name)))
        [] pc.kind = "close" ->
             IF open = <<>> THEN stop("unmatched close tag")
             ELSE IF Head(open) # pc.name THEN stop("interleaved closing tag")
             ELSE DelimRead(rest, cur, Tail(open),
                            Append(items, Item("close", pc.name)))

DelimRule == DelimRead(source, Braces, <<>>, <<>>)

\* C7: a delimiter-change tag of two tokens separated by white space sets
\* the open delimiter to the first and the close delimiter to the second;
\* every later read, at top level and in section bodies, uses the new pair,
\* and the old delimiters are ordinary text.
C7_DelimitersChanged ==
  (Compiled /\ DelimRule.covered) =>
    /\ tmpl.err.message = DelimRule.fault
    /\ tmpl.status = "ok" =>
         /\ MergeText(TreeItems(tmpl.elems)) = DelimRule.items
         /\ <<tmpl.otag, tmpl.ctag>> = DelimRule.cur

(***************************************************************************)
(* Spec: the host compiles a template of variables and sections, and       *)
(* renders it with chains of the contexts of ContextPool.                  *)
(***************************************************************************)
x == <<"x">>

sec == <<"s">>

dot == <<".">>

\* {{x}}{{#s}}={{x}}{{/s}}
ScalarSource ==
  <<VarTag(x), OpenTag(sec), TextPiece(<<"=">>), VarTag(x), CloseTag(sec)>>

\* {{x}}{{^s}}={{x}}{{/s}}
InvertedSource ==
  <<VarTag(x), InvertedTag(sec), TextPiece(<<"=">>), VarTag(x), CloseTag(sec)>>

\* {{#s}}<{{.}}{{x}}>{{/s}}
ListSource ==
  <<OpenTag(sec), TextPiece(<<"<">>), TagPiece("var", <<"&">>, dot),
    TagPiece("var", <<"&">>, x), TextPiece(<<">">>), CloseTag(sec)>>

\* t{{x}}
VarSource == <<TextPiece(<<"t">>), VarTag(x)>>

\* the layout {{&content}}, compiled
ContentLayout == ParseString(SourceText(<<TagPiece("var", <<"&">>, content)>>))

\* {x: "a", s: true}
CtxTrue == MapOf(x :> Str(<<"a">>) @@ sec :> Bool(TRUE))

\* {x: "b", s: []}
CtxEmptyList == MapOf(x :> Str(<<"b">>) @@ sec :> SliceOf(<<>>))

\* {s: [{x: "c"}, "d"]}
CtxList == MapOf(sec :> SliceOf(<<MapOf(x :> Str(<<"c">>)), Str(<<"d">>)>>))

\* {s: {x: "e"}}
CtxMap == MapOf(sec :> MapOf(x :> Str(<<"e">>)))

\* {x: nil, s: " "}
CtxNil == MapOf(x :> Nil @@ sec :> Str(<<" ">>))

\* struct{s struct{x string}}{}, all fields zero
CtxZeroStruct == StructOf(sec :> StructOf(x :> Str(<<>>), NoNames), NoNames)

\* {s: &[1]string{"f"}}
CtxPtrArray == MapOf(sec :> PtrTo(ArrayOf(<<Str(<<"f">>)>>)))

\* {s: map[string]string(nil)}
CtxNilMap == MapOf(sec :> NilMap)

ContextPool ==
  {CtxTrue, CtxEmptyList, CtxList, CtxMap, CtxNil, CtxZeroStruct,
   CtxPtrArray, CtxNilMap}

Chains == ChainsOf(ContextPool, MaxContexts)

Init ==
  InitWith({ScalarSource, InvertedSource, ListSource, VarSource}, Chains,
           {NoProvider})

Next ==
  \/ ParseLoop
  \/ ParseSectionLoop
  \/ CallSetErrorOnMissing
  \/ CallRender
  \/ CallRenderInLayout({ContentLayout})

Spec == Init /\ [][Next]_vars

(***************************************************************************)
(* What the resolution rule says of a chain, context by context.           *)
(***************************************************************************)
\* the map or struct behind a context, through pointers
RECURSIVE Behind(_)
Behind(c) == IF c.k = "ptr" THEN Behind(c.elem) ELSE c

\* context c has the name n as a key or a field
Holds(c, n) ==
  \/ Behind(c).k = "map" /\ n \in DOMAIN Behind(c).map
  \/ Behind(c).k = "struct" /\ n \in DOMAIN Behind(c).fields

Held(c, n) ==
  IF Behind(c).k = "map" THEN Behind(c).map[n] ELSE Behind(c).fields[n]

\* the first context of the chain that has the name n, 0 when none has
FirstHolding(chain, n) ==
  IF \E i \in 1..Len(chain) : Holds(chain[i], n)
    THEN CHOOSE i \in 1..Len(chain) :
           /\ Holds(chain[i], n)
           /\ \A j \in 1..(i - 1) : ~Holds(chain[j], n)
    ELSE 0

Resolves(chain, n) == FirstHolding(chain, n) # 0

Resolved(chain, n) == Held(chain[FirstHolding(chain, n)], n)

\* what a tag of the name n writes with the chain, unescaped
Written(chain, n) ==
  IF Resolves(chain, n) THEN Sprint(Resolved(chain, n)) ELSE <<>>

\* C5: lookup of an undotted name returns the value the first context that
\* has the name holds for it, also a nil one, and skips the contexts that do
\* not have it; the first argument of Render is the innermost context.  So
\* t{{x}} rendered with the arguments args writes "t" and the x of the first
\* argument that has an x, and reports a missing variable exactly when no
\* argument has one and the template errors on missing variables.
C5_FirstContextWins ==
  (last.op = "Render" /\ source = VarSource) =>
    IF Resolves(args, x)
      THEN /\ last.err = ""
           /\ last.out = <<"t">> \o HTMLEscape(Sprint(Resolved(args, x)))
      ELSE /\ last.err = (IF last.errmiss THEN "missing" ELSE "")
           /\ last.out = <<"t">>

\* C5's case: the first argument holds a nil x, the second one the x "b"
C5_Witness ==
  /\ last.op = "Render"
  /\ source = VarSource
  /\ args = <<CtxNil, CtxEmptyList>>
  /\ last.out = <<"t", "&", "l", "t", ";", "n", "i", "l", "&", "g", "t", ";">>

(***************************************************************************)
(* Sections: what a section tag of the name s does with its value.         *)
(***************************************************************************)
\* the value the section name resolves to with the arguments
SectionValue == Resolved(args, sec)

\* a scalar that is not empty: true, or a string with more than white space
ScalarNonEmpty(v) ==
  \/ v.k = "bool" /\ v.bool
  \/ v.k = "string" /\ TrimSpace(v.str) # <<>>

\* a value every reading takes for empty: nil, false, a blank string, a list
\* without elements
PlainlyEmpty(v) ==
  \/ v.k = "nil"
  \/ v.k = "bool" /\ ~v.bool
  \/ v.k = "string" /\ TrimSpace(v.str) = <<>>
  \/ v.k \in {"slice", "array"} /\ Len(v.list) = 0

\* C1: the body of a section whose value is a non-empty scalar, and the body
\* of an inverted section whose value is empty or missing, is rendered with
\* the chain the section was given, unchanged.  So in {{x}}{{#s}}={{x}}{{/s}}
\* and in {{x}}{{^s}}={{x}}{{/s}} the x of the body is the x before the
\* section.
C1_BodyKeepsChain ==
  (/\ last.op = "Render"
   /\ ~last.errmiss
   /\ args # <<>>
   /\ \/ /\ source = ScalarSource
         /\ Resolves(args, sec)
         /\ ScalarNonEmpty(SectionValue)
      \/ /\ source = InvertedSource
         /\ Resolves(args, sec) => PlainlyEmpty(SectionValue))
    => /\ last.err = ""
       /\ last.out = HTMLEscape(Written(args, x)) \o <<"=">>
                       \o HTMLEscape(Written(args, x))

\* the list a section value iterates as, through pointers
Elems(v) == Behind(v).list

\* the body <{{&.}}{{&x}}> of ListSource for the context c pushed innermost
ListBody(c) ==
  <<"<">> \o Sprint(c) \o Written(<<c>> \o args, x) \o <<">">>

RECURSIVE ListBodies(_)
ListBodies(elems) ==
  IF elems = <<>> THEN <<>>
  ELSE ListBody(Head(elems)) \o ListBodies(Tail(elems))

IsList(v) == Behind(v).k \in {"slice", "array"}

IsMapOrStruct(v) == Behind(v).k \in {"map", "struct"}

\* a nil map, or a struct all of whose fields are the zero value
ZeroMapOrStruct(v) ==
  \/ Behind(v).k = "map" /\ Behind(v).isnil
  \/ Behind(v).k = "struct" /\ IsZero(Behind(v))

\* the section of ListSource resolves and no missing-variable error can stop
\* the rendering
ListRendered ==
  /\ last.op = "Render"
  /\ source = ListSource
  /\ ~last.errmiss
  /\ Resolves(args, sec)

\* C8 as the specification states it: the body is rendered once per element
\* of a list, in order, with the element innermost, and exactly once for a
\* map or a struct, with that map or struct innermost.
C8_SectionIterates ==
  ListRendered =>
    /\ IsList(SectionValue) =>
         last.out = ListBodies(Elems(SectionValue))
    /\ IsMapOrStruct(SectionValue) =>
         last.out = ListBody(SectionValue)

\* C8 with the map and struct case limited to the values the code does not
\* take for empty: a nil map and a struct of zero fields render nothing.
C8_SectionIteratesNonEmpty ==
  ListRendered =>
    /\ last.err = ""
    /\ IsList(SectionValue) =>
         last.out = ListBodies(Elems(SectionValue))
    /\ (IsMapOrStruct(SectionValue) /\ ~ZeroMapOrStruct(SectionValue)) =>
         last.out = ListBody(SectionValue)
    /\ (IsMapOrStruct(SectionValue) /\ ZeroMapOrStruct(SectionValue)) =>
         last.out = <<>>

\* C8's case: a list of two elements under a second context with an x
C8_Witness ==
  /\ ListRendered
  /\ args = <<CtxList, CtxTrue>>
  /\ last.out = <<"<">> \o Sprint(MapOf(x :> Str(<<"c">>))) \o <<"c", ">">>
                  \o <<"<", "d", "a", ">">>

(***************************************************************************)
(* SpecPartials: renders of a template with a StaticProvider whose map the *)
(* host changes between the renders.                                       *)
(***************************************************************************)
part == <<"p">>

\* t{{#s}}{{x}}{{/s}}
SectionVarSource == <<TextPiece(<<"t">>), OpenTag(sec), VarTag(x), CloseTag(sec)>>

\* t{{>p}}
PartialSource == <<TextPiece(<<"t">>), PartialTag(part)>>

\* {s: true}
CtxNoX == MapOf(sec :> Bool(TRUE))

\* the texts the host gives the partial p: u, {{x}} and {{>p}}
PlainText == <<"u">>

VarText == SourceText(<<VarTag(x)>>)

SelfText == SourceText(<<PartialTag(part)>>)

PartialTexts == {PlainText, VarText, SelfText}

InitPartials ==
  InitWith({VarSource, SectionVarSource, PartialSource},
           ChainsOf({CtxTrue, CtxNoX}, MaxContexts),
           {NoProvider, StaticProvider(NoNames)})

NextPartials ==
  \/ ParseLoop
  \/ ParseSectionLoop
  \/ CallSetErrorOnMissing
  \/ CallRender
  \/ CallRenderInLayout({ContentLayout})
  \/ HostSetPartial({part}, PartialTexts)

SpecPartials == InitPartials /\ [][NextPartials]_vars

\* the provider of the last call held the text for the partial p
Provided(text) ==
  /\ ~last.prov.empty
  /\ part \in DOMAIN last.prov.partials
  /\ last.prov.partials[part] = text

\* the last call reached a variable tag {{x}} that resolves to nothing: at
\* top level, in the body of a section, or in the expansion of a partial
MissingAtTop == source = VarSource /\ ~Resolves(args, x)

MissingInSection ==
  /\ source = SectionVarSource
  /\ Resolves(args, sec)
  /\ ScalarNonEmpty(SectionValue)
  /\ ~Resolves(args, x)

MissingInPartial ==
  /\ source = PartialSource
  /\ Provided(VarText)
  /\ ~Resolves(args, x)

\* C2: after SetErrorOnMissing a render returns an error whenever a variable
\* tag it reaches resolves to nothing, at top level, in a section body or in
\* the expansion of a partial; without the option the render reports no
\* error.
C2_MissingIsError ==
  (last.op = "Render"
     /\ (MissingAtTop \/ MissingInSection \/ MissingInPartial))
    => last.err = (IF last.errmiss THEN "missing" ELSE "")

\* C3: when a render fails part-way, for a missing variable or for an error
\* of the partial provider, Render and RenderInLayout return the empty
\* string with the error.
C3_NoOutputOnError ==
  (last.op \in {"Render", "RenderInLayout"}
     /\ last.err \in {"missing", "partial"})
    => last.out = <<>>

\* the two last calls were the same call: the same entry point, contexts,
\* layout and errmiss, and a provider that returned the same
SameCall ==
  /\ prev.op # "none"
  /\ prev.op = last.op
  /\ prev.context = last.context
  /\ prev.layout = last.layout
  /\ prev.errmiss = last.errmiss
  /\ prev.prov = last.prov

\* what t{{>p}} writes with the text the provider holds for p during the
\* render, when the render reports no error
PartialWritten ==
  IF last.prov.empty THEN <<"t">>
  ELSE IF last.prov.partials[part] = PlainText THEN <<"t", "u">>
  ELSE <<"t">> \o HTMLEscape(Written(last.context, x))

\* a call of the template returns
Returns == last' # last \/ prev' # prev

DegeneratePieces ==
  {TagPiece("meta", <<"=">>, <<>>),
   TagPiece("meta", <<"=">>, <<"=">>),
   TagPiece("meta", <<"=">>, <<"a", "=">>),
   ToBars(<<" ">>),
   TagPiece("var", <<"{">>, <<"}">>),
   TagPiece("var", <<>>, <<>>),
   TextPiece(<<"{", "{">>),
   TextPiece(<<"t">>),
   OpenTag(<<"a">>),
   CloseTag(<<"a">>)}

InitDegenerate ==
  InitWith(SourcesOf(DegeneratePieces, MaxDegeneratePieces), {<<>>},
           {NoProvider})

SpecDegenerate == InitDegenerate /\ [][NextCompile]_vars

\* C11: the compile of any source returns a Template or a parse error and
\* never crashes: in every state of the parser the cursor is within the
\* source, the open and close delimiters are not empty, and no index or slice
\* bound was out of range, also for the tags {{=}}, {{==}}, {{=a=}} and
\* {{{}}}.
C11_CompileNeverCrashes ==
  /\ tmpl.status \in {"parsing", "ok", "error"}
  /\ 0 <= tmpl.p
  /\ tmpl.p <= Len(tmpl.data)
  /\ tmpl.otag # <<>>
  /\ tmpl.ctag # <<>>

\* C12: a render of a compiled template with any number of context
\* arguments, none included, returns output or an error and never crashes;
\* renderSection does not index into an empty context chain.
C12_RenderNeverCrashes ==
  last.op \in {"Render", "RenderInLayout"}
    => last.err \in {"", "missing", "partial", "parse"}

====
